---------------------------- MODULE Spec2Model ----------------------------
(***************************************************************************)
(* One run of request_certificate (acmed, src/acme_proto.rs): the sequence *)
(* of signed, nonce-threaded exchanges with an ACME server, the polling    *)
(* loops and the challenge matching.  The server and the collaborators     *)
(* (http, account, certificate, storage, hooks) answer nondeterministically*)
(* from small sets; the server issues a fresh nonce with every response.   *)
(***************************************************************************)
EXTENDS Naturals, Sequences, FiniteSets, TLC

(* ------------------------------ bounds -------------------------------- *)

\* Largest number of authorization URLs an order lists.
MaxAuths == 2
\* Largest number of challenges an authorization offers.
MaxChall == 2
\* The polling primitive's configured maximum number of fetches.
MaxTries == 2

(* --------------------------- value domains ---------------------------- *)

None == "none"

\* enum Challenge { Http01, Dns01, TlsAlpn01 }
ChallengeKinds == {"Http01", "Dns01", "TlsAlpn01"}

ChallUrlNames == <<"chall1", "chall2", "chall3", "chall4">>
TokenNames == <<"tokA", "tokB", "tokC", "tokD">>

\* The parameters (url, token) of the i-th challenge an authorization offers.
TokenChallenge(i) == [url |-> ChallUrlNames[i], token |-> TokenNames[i]]

\* structs::Challenge: a variant kind wrapping the server's parameters.
OfferedChallenge(kind, i) == [kind |-> kind, data |-> TokenChallenge(i)]

AuthorizationStatus ==
    {"pending", "processing", "valid", "invalid", "expired", "revoked"}

OrderStatus == {"pending", "ready", "processing", "valid", "invalid"}

AuthUrlNames == <<"auth1", "auth2", "auth3", "auth4">>
AuthUrls == { AuthUrlNames[i] : i \in 1..MaxAuths }

OrderUrls == {"order1"}
FinalizeUrls == {"fin1", "fin2"}
CertUrls == {"crt1", "crt2"}
CrtBodies == {"pemA", "pemB"}

\* The authorization lists a new-order response can carry: distinct URLs.
AuthLists == { [i \in 1..k |-> AuthUrlNames[i]] : k \in 0..MaxAuths }

\* The challenge lists an authorization can offer: any kinds, each challenge
\* with its own URL and token.
ChallengeLists ==
    UNION { { [i \in 1..k |-> OfferedChallenge(ks[i], i)] : ks \in [1..k -> ChallengeKinds] } :
            k \in 0..MaxChall }

\* The Order objects a poll of the order URL can return for the order that
\* lists the authorizations `auths`; the server names a certificate only in
\* an order it is issuing or has issued.
Orders(auths) ==
    { o \in [status : OrderStatus, authorizations : {auths},
             finalize : FinalizeUrls, certificate : CertUrls \cup {None}] :
        o.certificate # None => o.status \in {"processing", "valid"} }

\* The Order objects the finalize POST can return: the server has accepted the
\* CSR and is issuing, or has issued.
FinalizedOrders(auths) ==
    { o \in Orders(auths) : o.status \in {"processing", "valid"} }

\* The Order objects a new-order response can return.
NewOrders ==
    [status : {"pending"}, authorizations : AuthLists,
     finalize : {"fin1"}, certificate : {None}]

\* The Authorization objects a first fetch can return.
Authorizations ==
    [status : AuthorizationStatus, challenges : ChallengeLists]

\* The Authorization objects a poll can return (pool_obj's caller drops the
\* object, so its challenges are left out).
PolledAuthorizations ==
    [status : AuthorizationStatus, challenges : {<<>>}]

NoOrder == [status |-> None, authorizations |-> <<>>,
            finalize |-> None, certificate |-> None]
NoAuth == [status |-> None, challenges |-> <<>>]
NoReq == [kind |-> None, url |-> None, payload |-> None, nonce |-> 0,
          to |-> None]

(* ------------------------------ state --------------------------------- *)

VARIABLES
    pc,          \* the run's position in request_certificate
    result,      \* "running", "ok", or the error the run returned
    challenge,   \* cert.challenge, the configured variant
    nonce,       \* the local variable nonce (0: none yet)
    order,       \* the local variable order
    order_url,   \* the local variable order_url
    authIdx,     \* position of the for loop over order.authorizations
    auth,        \* the local variable auth
    challIdx,    \* position of the for loop over auth.challenges
    tries,       \* fetches done by the running pool_obj call
    crt,         \* the local variable crt
    srvNonce,    \* the nonce carried by the server's latest response
    usedNonces,  \* nonces requests have been built with
    lastReq,     \* the latest signed request
    streak,      \* how many requests in a row were lastReq's kind to its URL
    reqCount,    \* number of signed requests built
    lastObs,     \* status decoded from the latest response ("none": no object)
    stats,       \* per authorization URL: what the run did with it
    orderSeen,   \* what the run observed of the order and sent for it
    stored,      \* bytes handed to storage::write_certificate, in order
    conf,        \* the configured challenge name and what parsing made of it
    sched        \* which run is on the processor, and the run that is not

vars == <<pc, result, challenge, nonce, order, order_url, authIdx, auth,
          challIdx, tries, crt, srvNonce, usedNonces, lastReq, streak,
          reqCount, lastObs, stats, orderSeen, stored, conf, sched>>

\* What no step of request_certificate touches.
outside == <<conf, sched>>

locals == <<order, order_url, authIdx, auth, challIdx, tries, crt>>

\* first: the status of the first fetch; the flags: whether the URL was
\* fetched, a proof computed, the hook invoked, an acceptance POST sent, a
\* poll sent, the status "valid" observed; credit: hook invocations that
\* succeeded, less the acceptance POSTs sent; uncovered: an acceptance POST was
\* sent with no credit.
NoStats == [first |-> None, fetched |-> FALSE, proofs |-> FALSE,
            hooks |-> FALSE, posts |-> FALSE, polls |-> FALSE,
            valid |-> FALSE, credit |-> 0, uncovered |-> FALSE]

\* ready: a poll of the order URL returned "ready"; finalizeUrl, downloadUrl:
\* where the finalize and download requests went; downloaded: the bytes the
\* download returned; lastStatus, lastCert: the order most recently observed;
\* readyFinalize: the finalize URL of the order the order-ready poll returned;
\* finalizeCert: the certificate URL in the response to finalize; refetched:
\* the order URL was fetched after finalize.
NoOrderSeen == [ready |-> FALSE, finalizeUrl |-> None,
                downloadUrl |-> None, downloaded |-> None,
                lastStatus |-> None, lastCert |-> None,
                readyFinalize |-> None, finalizeCert |-> None,
                refetched |-> FALSE]

\* input: the string handed to Challenge::from_str; parsed: its result; shown:
\* the Display output of the parsed variant (empty: none yet); reparsed:
\* from_str of that output.
NoConf == [input |-> <<>>, parsed |-> None, shown |-> <<>>, reparsed |-> None]

\* active: the run whose locals the variables hold; parked: the locals of the
\* other run; recv: the nonces the server returned to the other run.
NoSched == [active |-> 1, parked |-> None, recv |-> {}]

Init ==
    /\ pc = "directory"
    /\ result = "running"
    /\ challenge \in ChallengeKinds
    /\ nonce = 0
    /\ order = NoOrder
    /\ order_url = None
    /\ authIdx = 1
    /\ auth = NoAuth
    /\ challIdx = 1
    /\ tries = 0
    /\ crt = None
    /\ srvNonce = 0
    /\ usedNonces = {}
    /\ lastReq = NoReq
    /\ streak = 0
    /\ reqCount = 0
    /\ lastObs = None
    /\ stats = [u \in AuthUrls |-> NoStats]
    /\ orderSeen = NoOrderSeen
    /\ stored = <<>>
    /\ conf = NoConf
    /\ sched = NoSched

(* ----------------------------- helpers -------------------------------- *)

\* A `?` that returns Err(e): the run ends, its locals are dropped.
Abort(e) ==
    /\ pc' = "done"
    /\ result' = e

\* encode_kid(priv_key, account_url, data, url, n): the request built by a
\* data builder for `url` carrying `data`, with nonce n.
EncodeKid(kind, data, url, n) ==
    [kind |-> kind, url |-> url, payload |-> data, nonce |-> n]

\* set_data_builder!(account, data, url), applied to nonce n.
SetDataBuilder(kind, data, url, n) == EncodeKid(kind, data, url, n)

\* Mutant: the empty payload is written as an empty JSON object.
SetEmptyDataBuilder_Braces(kind, url, n) == SetDataBuilder(kind, "{}", url, n)

\* set_empty_data_builder!(account, url), applied to nonce n.
SetEmptyDataBuilder(kind, url, n) == SetDataBuilder(kind, "", url, n)

\* The request `req` is built and sent.
Send(url, req) ==
    /\ lastReq' = [kind |-> req.kind, url |-> req.url, payload |-> req.payload,
                   nonce |-> req.nonce, to |-> url]
    /\ streak' = IF req.kind = lastReq.kind /\ req.url = lastReq.url
                 THEN streak + 1 ELSE 1
    /\ usedNonces' = usedNonces \cup {req.nonce}
    /\ reqCount' = reqCount + 1

\* The server answers with a fresh nonce in its Replay-Nonce header.
FreshNonce == srvNonce + 1

(* ------------------------- steps 1 to 4 -------------------------------- *)

\* 1. http::get_directory(&cert.remote_url)?  (unsigned)
GetDirectory ==
    /\ pc = "directory"
    /\ \/ /\ pc' = "nonce"
          /\ UNCHANGED result
       \/ Abort("err_directory")
    /\ UNCHANGED <<outside, challenge, nonce, locals, srvNonce, usedNonces, lastReq, streak,
                   reqCount, lastObs, stats, orderSeen, stored>>

\* 2. http::get_nonce(&directory.new_nonce)?  (unsigned)
GetNonce ==
    /\ pc = "nonce"
    /\ \/ /\ srvNonce' = FreshNonce
          /\ nonce' = srvNonce'
          /\ pc' = "account"
          /\ UNCHANGED result
       \/ /\ Abort("err_nonce")
          /\ UNCHANGED <<nonce, srvNonce>>
    /\ UNCHANGED <<outside, challenge, locals, usedNonces, lastReq, streak, reqCount, lastObs,
                   stats, orderSeen, stored>>

\* Mutant: a failed account exchange is tried again.
AccountNew_Retry ==
    /\ pc = "account"
    /\ Send("new_account", EncodeKid("new_account", "account", "new_account", nonce))
    /\ \/ /\ srvNonce' = FreshNonce
          /\ nonce' = srvNonce'
          /\ pc' = "new_order"
       \/ UNCHANGED <<pc, nonce, srvNonce>>
    /\ lastObs' = None
    /\ UNCHANGED <<outside, result, challenge, locals, stats, orderSeen, stored>>

\* 3. AccountManager::new(cert, &directory, &nonce)?: one signed exchange
\* that consumes the nonce and returns the next one.
AccountNew ==
    /\ pc = "account"
    /\ Send("new_account", EncodeKid("new_account", "account", "new_account", nonce))
    /\ \/ /\ srvNonce' = FreshNonce
          /\ nonce' = srvNonce'
          /\ pc' = "new_order"
          /\ UNCHANGED result
       \/ /\ Abort("err_account")
          /\ UNCHANGED <<nonce, srvNonce>>
    /\ lastObs' = None
    /\ UNCHANGED <<outside, challenge, locals, stats, orderSeen, stored>>

\* Where the for loop over order.authorizations stands at position i.
AuthLoopPc(o, i) == IF i <= Len(o.authorizations) THEN "auth_fetch" ELSE "pool_ready"

\* 4. http::get_obj_loc(&directory.new_order, &data_builder, &nonce)?
NewOrder ==
    /\ pc = "new_order"
    /\ Send("new_order", SetDataBuilder("new_order", "order", "new_order", nonce))
    /\ \/ \E o \in NewOrders, loc \in OrderUrls :
            /\ srvNonce' = FreshNonce
            /\ nonce' = srvNonce'
            /\ order' = o
            /\ order_url' = loc
            /\ authIdx' = 1
            /\ pc' = AuthLoopPc(o, 1)
            /\ lastObs' = o.status
            /\ UNCHANGED result
       \/ /\ Abort("err_new_order")
          /\ lastObs' = None
          /\ UNCHANGED <<nonce, srvNonce, order, order_url, authIdx>>
    /\ UNCHANGED <<outside, challenge, auth, challIdx, tries, crt, stats, orderSeen,
                   stored>>

(* ------------------- step 5: the authorizations ----------------------- *)

\* Mutant: the check of a status other than pending is missing.
AuthDecision_NoAbort(status) ==
    IF status = "valid" THEN "continue" ELSE "challenges"

\* Mutant: the `continue` on a valid authorization is missing.
AuthDecision_NoContinue(status) ==
    IF status # "pending" /\ status # "valid" THEN "abort" ELSE "challenges"

\* if auth.status == Valid { continue }  if auth.status != Pending { return Err }
AuthDecision(status) ==
    IF status = "valid" THEN "continue"
    ELSE IF status # "pending" THEN "abort"
    ELSE "challenges"

\* Mutant: a Dns01 arm pasted with the Http01 pattern.
ChallengeEq_WrongArm(self, other) ==
    CASE self = "Http01" /\ other.kind = "Http01" -> TRUE
      [] self = "Dns01" /\ other.kind = "Http01" -> TRUE
      [] self = "TlsAlpn01" /\ other.kind = "TlsAlpn01" -> TRUE
      [] OTHER -> FALSE

\* impl PartialEq<structs::Challenge> for Challenge
ChallengeEq(self, other) ==
    CASE self = "Http01" /\ other.kind = "Http01" -> TRUE
      [] self = "Dns01" /\ other.kind = "Dns01" -> TRUE
      [] self = "TlsAlpn01" /\ other.kind = "TlsAlpn01" -> TRUE
      [] OTHER -> FALSE

\* challenge.get_url()
GetUrl(c) == c.data.url

\* Where the for loop over auth.challenges stands at position i.
ChallLoopPc(a, i) == IF i <= Len(a.challenges) THEN "chall_loop" ELSE "pool_auth"

\* Mutant: the authorizations are taken from the end of the list.
AuthUrl_Reversed ==
    order.authorizations[Len(order.authorizations) - authIdx + 1]

\* The URL the loop over order.authorizations is at.
AuthUrl == order.authorizations[authIdx]

\* The challenge the loop over auth.challenges is at.
CurChallenge == auth.challenges[challIdx]

\* 5. http::get_obj(&auth_url, &data_builder, &nonce)? and the status checks
FetchAuthorization ==
    /\ pc = "auth_fetch"
    /\ Send(AuthUrl, SetEmptyDataBuilder("auth_fetch", AuthUrl, nonce))
    /\ \/ \E a \in Authorizations :
            /\ srvNonce' = FreshNonce
            /\ nonce' = srvNonce'
            /\ lastObs' = a.status
            /\ stats' = [stats EXCEPT ![AuthUrl] =
                   [@ EXCEPT !.first = IF @ = None THEN a.status ELSE @,
                             !.fetched = TRUE,
                             !.valid = @ \/ a.status = "valid"]]
            /\ CASE AuthDecision(a.status) = "continue" ->
                      /\ authIdx' = authIdx + 1
                      /\ pc' = AuthLoopPc(order, authIdx + 1)
                      /\ UNCHANGED <<result, auth, challIdx>>
                 [] AuthDecision(a.status) = "abort" ->
                      /\ Abort("err_authorization_status")
                      /\ UNCHANGED <<authIdx, auth, challIdx>>
                 [] OTHER ->
                      /\ auth' = a
                      /\ challIdx' = 1
                      /\ pc' = ChallLoopPc(a, 1)
                      /\ UNCHANGED <<result, authIdx>>
       \/ /\ Abort("err_http")
          /\ lastObs' = None
          /\ stats' = [stats EXCEPT ![AuthUrl].fetched = TRUE]
          /\ UNCHANGED <<nonce, srvNonce, authIdx, auth, challIdx>>
    /\ UNCHANGED <<outside, challenge, order, order_url, tries, crt, orderSeen, stored>>

\* Mutant: a challenge of another type is an error.
SkipChallenge_Error ==
    /\ pc = "chall_loop"
    /\ ~ChallengeEq(challenge, CurChallenge)
    /\ Abort("err_challenge")
    /\ UNCHANGED <<outside, challenge, nonce, locals, srvNonce, usedNonces, lastReq,
                   streak, reqCount, lastObs, stats, orderSeen, stored>>

\* 6. if cert.challenge == *challenge { ... } is false: the next challenge.
SkipChallenge ==
    /\ pc = "chall_loop"
    /\ ~ChallengeEq(challenge, CurChallenge)
    /\ challIdx' = challIdx + 1
    /\ pc' = ChallLoopPc(auth, challIdx + 1)
    /\ UNCHANGED <<outside, result, challenge, nonce, order, order_url, authIdx, auth,
                   tries, crt, srvNonce, usedNonces, lastReq, streak, reqCount,
                   lastObs, stats, orderSeen, stored>>

\* 6. if cert.challenge == *challenge: challenge.get_proof(&account.priv_key)?
GetProof ==
    /\ pc = "chall_loop"
    /\ ChallengeEq(challenge, CurChallenge)
    /\ stats' = [stats EXCEPT ![AuthUrl].proofs = TRUE]
    /\ \/ /\ pc' = "hook"
          /\ UNCHANGED result
       \/ Abort("err_proof")
    /\ UNCHANGED <<outside, challenge, nonce, locals, srvNonce, usedNonces, lastReq, streak,
                   reqCount, lastObs, orderSeen, stored>>

\* Mutant: the result of the hooks is ignored (no `?`).
CallChallengeHooks_ErrorIgnored ==
    /\ pc = "hook"
    /\ \/ stats' = [stats EXCEPT ![AuthUrl].hooks = TRUE,
                                 ![AuthUrl].credit = @ + 1]
       \/ stats' = [stats EXCEPT ![AuthUrl].hooks = TRUE]
    /\ pc' = "post"
    /\ UNCHANGED <<outside, result, challenge, nonce, locals, srvNonce, usedNonces,
                   lastReq, streak, reqCount, lastObs, orderSeen, stored>>

\* 7. cert.call_challenge_hooks(&file_name, &proof, &domain)?
CallChallengeHooks ==
    /\ pc = "hook"
    /\ \/ /\ stats' = [stats EXCEPT ![AuthUrl].hooks = TRUE,
                                    ![AuthUrl].credit = @ + 1]
          /\ pc' = "post"
          /\ UNCHANGED result
       \/ /\ stats' = [stats EXCEPT ![AuthUrl].hooks = TRUE]
          /\ Abort("err_hook")
    /\ UNCHANGED <<outside, challenge, nonce, locals, srvNonce, usedNonces, lastReq, streak,
                   reqCount, lastObs, orderSeen, stored>>

\* Mutant: the nonce returned for the acceptance POST is dropped.
NonceAfterChallengeResponse_Stale(old, new_nonce) == old

\* let new_nonce = http::post_challenge_response(...)?; nonce = new_nonce;
NonceAfterChallengeResponse(old, new_nonce) == new_nonce

\* 8. http::post_challenge_response(&chall_url, &data_builder, &nonce)?
PostChallengeResponse ==
    /\ pc = "post"
    /\ Send(GetUrl(CurChallenge),
            SetDataBuilder("challenge_response", "{}", GetUrl(CurChallenge), nonce))
    /\ stats' = [stats EXCEPT ![AuthUrl].posts = TRUE,
                              ![AuthUrl].credit = IF @ > 0 THEN @ - 1 ELSE 0,
                              ![AuthUrl].uncovered =
                                  @ \/ stats[AuthUrl].credit = 0]
    /\ lastObs' = None
    /\ \/ /\ srvNonce' = FreshNonce
          /\ nonce' = NonceAfterChallengeResponse(nonce, srvNonce')
          /\ challIdx' = challIdx + 1
          /\ pc' = ChallLoopPc(auth, challIdx + 1)
          /\ UNCHANGED result
       \/ /\ Abort("err_http")
          /\ UNCHANGED <<nonce, srvNonce, challIdx>>
    /\ UNCHANGED <<outside, challenge, order, order_url, authIdx, auth, tries, crt,
                   orderSeen, stored>>

(* ----------------------- the polling primitive ------------------------ *)

\* Mutant: the order returned by the order-ready poll is dropped.
OrderAfterReady_Kept(old, polled) == old

\* let (order, nonce) = http::pool_obj(&order_url, ...)?  (order-ready poll)
OrderAfterReady(old, polled) == polled

\* let (order, nonce) = http::pool_obj(&order_url, ...)?  (order-valid poll)
OrderAfterValid(old, polled) == polled

\* A polled authorization that can no longer become valid.
AuthTerminalFailure(a) == a.status \in {"invalid", "expired", "revoked"}

\* A polled order that can no longer progress.
OrderTerminalFailure(o) == o.status = "invalid"

\* http::pool_obj after a fetch, the `fetched`-th of the call, decoded an
\* object on which break_fn gave `satisfied`.
PoolObj(satisfied, terminal, fetched) ==
    IF satisfied THEN "ok"
    ELSE IF terminal THEN "Failed"
    ELSE IF fetched >= MaxTries THEN "Timeout"
    ELSE "retry"

\* Mutant: the poll stops as soon as the authorization is no longer pending.
AuthBreakFn_NotPending(a) == a.status # "pending"

\* let break_fn = |a: &Authorization| a.status == AuthorizationStatus::Valid;
AuthBreakFn(a) == a.status = "valid"

\* Mutant: a pending order passes for a ready one.
OrderReadyBreakFn_Pending(o) == o.status \in {"ready", "pending"}

\* let break_fn = |o: &Order| o.status == OrderStatus::Ready;
OrderReadyBreakFn(o) == o.status = "ready"

\* Mutant: an order still processing passes for a valid one.
OrderValidBreakFn_Processing(o) == o.status \in {"valid", "processing"}

\* let break_fn = |o: &Order| o.status == OrderStatus::Valid;
OrderValidBreakFn(o) == o.status = "valid"

\* 9. http::pool_obj(&auth_url, &data_builder, &break_fn, &nonce)?: one fetch
PoolAuthorization ==
    /\ pc = "pool_auth"
    /\ Send(AuthUrl, SetEmptyDataBuilder("auth_poll", AuthUrl, nonce))
    /\ \/ \E a \in PolledAuthorizations :
            LET v == PoolObj(AuthBreakFn(a), AuthTerminalFailure(a), tries + 1) IN
            /\ srvNonce' = FreshNonce
            /\ lastObs' = a.status
            /\ stats' = [stats EXCEPT ![AuthUrl] =
                   [@ EXCEPT !.polls = TRUE,
                             !.valid = @ \/ a.status = "valid"]]
            /\ CASE v = "ok" ->
                      /\ nonce' = srvNonce'
                      /\ authIdx' = authIdx + 1
                      /\ tries' = 0
                      /\ auth' = NoAuth
                      /\ pc' = AuthLoopPc(order, authIdx + 1)
                      /\ UNCHANGED result
                 [] v = "retry" ->
                      /\ nonce' = srvNonce'
                      /\ tries' = tries + 1
                      /\ UNCHANGED <<pc, result, authIdx, auth>>
                 [] OTHER ->
                      /\ Abort(v)
                      /\ tries' = tries + 1
                      /\ UNCHANGED <<nonce, authIdx, auth>>
       \/ /\ Abort("err_http")
          /\ lastObs' = None
          /\ stats' = [stats EXCEPT ![AuthUrl].polls = TRUE]
          /\ tries' = tries + 1
          /\ UNCHANGED <<nonce, srvNonce, authIdx, auth>>
    /\ UNCHANGED <<outside, challenge, order, order_url, challIdx, crt, orderSeen,
                   stored>>

(* ------------------------ steps 10 to 13 ------------------------------ *)

\* Mutant: a poll of the order that timed out is started again.
PoolOrderReady_Again ==
    /\ pc = "pool_ready"
    /\ Send(order_url, SetEmptyDataBuilder("order_poll", order_url, nonce))
    /\ \/ \E o \in Orders(order.authorizations) :
            LET v == PoolObj(OrderReadyBreakFn(o), OrderTerminalFailure(o), tries + 1) IN
            /\ srvNonce' = FreshNonce
            /\ lastObs' = o.status
            /\ orderSeen' = [orderSeen EXCEPT !.ready = @ \/ o.status = "ready",
                                              !.lastStatus = o.status,
                                              !.lastCert = o.certificate]
            /\ CASE v = "ok" ->
                      /\ nonce' = srvNonce'
                      /\ order' = o
                      /\ tries' = 0
                      /\ pc' = "csr"
                      /\ UNCHANGED result
                 [] v = "retry" ->
                      /\ nonce' = srvNonce'
                      /\ tries' = tries + 1
                      /\ UNCHANGED <<pc, result, order>>
                 [] v = "Timeout" ->
                      /\ nonce' = srvNonce'
                      /\ tries' = 0
                      /\ UNCHANGED <<pc, result, order>>
                 [] OTHER ->
                      /\ Abort(v)
                      /\ tries' = tries + 1
                      /\ UNCHANGED <<nonce, order>>
       \/ /\ Abort("err_http")
          /\ lastObs' = None
          /\ tries' = tries + 1
          /\ UNCHANGED <<nonce, srvNonce, order, orderSeen>>
    /\ UNCHANGED <<outside, challenge, order_url, authIdx, auth, challIdx, crt, stats,
                   stored>>

\* 10. http::pool_obj(&order_url, &data_builder, &break_fn, &nonce)?: one fetch
PoolOrderReady ==
    /\ pc = "pool_ready"
    /\ Send(order_url, SetEmptyDataBuilder("order_poll", order_url, nonce))
    /\ \/ \E o \in Orders(order.authorizations) :
            LET v == PoolObj(OrderReadyBreakFn(o), OrderTerminalFailure(o), tries + 1) IN
            /\ srvNonce' = FreshNonce
            /\ lastObs' = o.status
            /\ orderSeen' = [orderSeen EXCEPT !.ready = @ \/ o.status = "ready",
                                              !.lastStatus = o.status,
                                              !.lastCert = o.certificate,
                                              !.readyFinalize =
                                                  IF v = "ok" THEN o.finalize ELSE @]
            /\ CASE v = "ok" ->
                      /\ nonce' = srvNonce'
                      /\ order' = OrderAfterReady(order, o)
                      /\ tries' = 0
                      /\ pc' = "csr"
                      /\ UNCHANGED result
                 [] v = "retry" ->
                      /\ nonce' = srvNonce'
                      /\ tries' = tries + 1
                      /\ UNCHANGED <<pc, result, order>>
                 [] OTHER ->
                      /\ Abort(v)
                      /\ tries' = tries + 1
                      /\ UNCHANGED <<nonce, order>>
       \/ /\ Abort("err_http")
          /\ lastObs' = None
          /\ tries' = tries + 1
          /\ UNCHANGED <<nonce, srvNonce, order, orderSeen>>
    /\ UNCHANGED <<outside, challenge, order_url, authIdx, auth, challIdx, crt, stats,
                   stored>>

\* 11. certificate::get_key_pair(cert)?; certificate::generate_csr(...)?
GenerateCsr ==
    /\ pc = "csr"
    /\ \/ /\ pc' = "finalize"
          /\ UNCHANGED result
       \/ Abort("err_csr")
    /\ UNCHANGED <<outside, challenge, nonce, locals, srvNonce, usedNonces, lastReq, streak,
                   reqCount, lastObs, stats, orderSeen, stored>>

\* 11. http::get_obj(&order.finalize, &data_builder, &nonce)?
Finalize ==
    /\ pc = "finalize"
    /\ Send(order.finalize, SetDataBuilder("finalize", "csr", order.finalize, nonce))
    /\ \/ \E o \in FinalizedOrders(order.authorizations) :
            /\ srvNonce' = FreshNonce
            /\ nonce' = srvNonce'
            /\ lastObs' = o.status
            /\ orderSeen' = [orderSeen EXCEPT !.finalizeUrl = order.finalize,
                                              !.lastStatus = o.status,
                                              !.lastCert = o.certificate,
                                              !.finalizeCert = o.certificate]
            /\ pc' = "pool_valid"
            /\ UNCHANGED result
       \/ /\ Abort("err_http")
          /\ lastObs' = None
          /\ orderSeen' = [orderSeen EXCEPT !.finalizeUrl = order.finalize]
          /\ UNCHANGED <<nonce, srvNonce>>
    /\ UNCHANGED <<outside, challenge, locals, stats, stored>>

\* 12. http::pool_obj(&order_url, &data_builder, &break_fn, &nonce)?: one fetch
PoolOrderValid ==
    /\ pc = "pool_valid"
    /\ Send(order_url, SetEmptyDataBuilder("order_poll", order_url, nonce))
    /\ \/ \E o \in Orders(order.authorizations) :
            LET v == PoolObj(OrderValidBreakFn(o), OrderTerminalFailure(o), tries + 1) IN
            /\ srvNonce' = FreshNonce
            /\ lastObs' = o.status
            /\ orderSeen' = [orderSeen EXCEPT !.lastStatus = o.status,
                                              !.lastCert = o.certificate,
                                              !.refetched = TRUE]
            /\ CASE v = "ok" ->
                      /\ nonce' = srvNonce'
                      /\ order' = OrderAfterValid(order, o)
                      /\ tries' = 0
                      /\ pc' = "download"
                      /\ UNCHANGED result
                 [] v = "retry" ->
                      /\ nonce' = srvNonce'
                      /\ tries' = tries + 1
                      /\ UNCHANGED <<pc, result, order>>
                 [] OTHER ->
                      /\ Abort(v)
                      /\ tries' = tries + 1
                      /\ UNCHANGED <<nonce, order>>
       \/ /\ Abort("err_http")
          /\ lastObs' = None
          /\ tries' = tries + 1
          /\ orderSeen' = [orderSeen EXCEPT !.refetched = TRUE]
          /\ UNCHANGED <<nonce, srvNonce, order>>
    /\ UNCHANGED <<outside, challenge, order_url, authIdx, auth, challIdx, crt, stats,
                   stored>>

\* Mutant: an absent certificate URL falls back to the finalize URL.
CrtUrl_Fallback(o) == IF o.certificate = None THEN o.finalize ELSE o.certificate

\* order.certificate.ok_or_else(|| Error::from("No certificate available ..."))
CrtUrl(o) == o.certificate

\* 13. the certificate URL, then http::get_certificate(&crt_url, ...)?
GetCertificate ==
    /\ pc = "download"
    /\ \/ /\ CrtUrl(order) = None
          /\ Abort("err_no_certificate")
          /\ UNCHANGED <<nonce, crt, srvNonce, usedNonces, lastReq, streak, reqCount,
                         lastObs, orderSeen>>
       \/ /\ CrtUrl(order) # None
          /\ Send(CrtUrl(order), SetEmptyDataBuilder("download", CrtUrl(order), nonce))
          /\ lastObs' = None
          /\ \/ \E body \in CrtBodies :
                  /\ srvNonce' = FreshNonce
                  /\ crt' = body
                  /\ orderSeen' = [orderSeen EXCEPT !.downloadUrl = CrtUrl(order),
                                                    !.downloaded = body]
                  /\ pc' = "store"
                  /\ UNCHANGED <<result, nonce>>
             \/ /\ Abort("err_http")
                /\ orderSeen' = [orderSeen EXCEPT !.downloadUrl = CrtUrl(order)]
                /\ UNCHANGED <<nonce, crt, srvNonce>>
    /\ UNCHANGED <<outside, challenge, order, order_url, authIdx, auth, challIdx, tries,
                   stats, stored>>

\* Mutant: the run returns Ok without handing the certificate to storage.
WriteCertificate_NoWrite ==
    /\ pc = "store"
    /\ \/ /\ pc' = "done"
          /\ result' = "ok"
       \/ Abort("err_storage")
    /\ UNCHANGED <<outside, challenge, nonce, locals, srvNonce, usedNonces, lastReq,
                   streak, reqCount, lastObs, stats, orderSeen, stored>>

\* storage::write_certificate(cert, &crt.as_bytes())?; Ok(())
WriteCertificate ==
    /\ pc = "store"
    /\ stored' = Append(stored, crt)
    /\ \/ /\ pc' = "done"
          /\ result' = "ok"
       \/ Abort("err_storage")
    /\ UNCHANGED <<outside, challenge, nonce, locals, srvNonce, usedNonces, lastReq, streak,
                   reqCount, lastObs, stats, orderSeen>>

Next ==
    \/ GetDirectory
    \/ GetNonce
    \/ AccountNew
    \/ NewOrder
    \/ FetchAuthorization
    \/ SkipChallenge
    \/ GetProof
    \/ CallChallengeHooks
    \/ PostChallengeResponse
    \/ PoolAuthorization
    \/ PoolOrderReady
    \/ GenerateCsr
    \/ Finalize
    \/ PoolOrderValid
    \/ GetCertificate
    \/ WriteCertificate

Spec == Init /\ [][Next]_vars

\* request_certificate runs on one thread and every call it makes returns:
\* while a step is possible, one is taken.
FairSpec == Spec /\ WF_vars(Next)

(* ----------------------- concurrent runs ------------------------------- *)

\* Signed requests the two runs may build between them.
MaxConcRequests == 4

\* The locals of a call of request_certificate at its start.
FreshRun(c) ==
    [pc |-> "directory", result |-> "running", challenge |-> c, nonce |-> 0,
     order |-> NoOrder, order_url |-> None, authIdx |-> 1, auth |-> NoAuth,
     challIdx |-> 1, tries |-> 0, crt |-> None, usedNonces |-> {},
     lastReq |-> NoReq, streak |-> 0, reqCount |-> 0, lastObs |-> None,
     stats |-> [u \in AuthUrls |-> NoStats], orderSeen |-> NoOrderSeen,
     stored |-> <<>>]

\* The locals of the run on the processor.
ThisRun ==
    [pc |-> pc, result |-> result, challenge |-> challenge, nonce |-> nonce,
     order |-> order, order_url |-> order_url, authIdx |-> authIdx,
     auth |-> auth, challIdx |-> challIdx, tries |-> tries, crt |-> crt,
     usedNonces |-> usedNonces, lastReq |-> lastReq, streak |-> streak,
     reqCount |-> reqCount, lastObs |-> lastObs, stats |-> stats,
     orderSeen |-> orderSeen, stored |-> stored]

\* Two calls of request_certificate, for two certificates, on two threads.
ConcInit ==
    /\ pc = "directory"
    /\ result = "running"
    /\ challenge \in ChallengeKinds
    /\ nonce = 0
    /\ order = NoOrder
    /\ order_url = None
    /\ authIdx = 1
    /\ auth = NoAuth
    /\ challIdx = 1
    /\ tries = 0
    /\ crt = None
    /\ srvNonce = 0
    /\ usedNonces = {}
    /\ lastReq = NoReq
    /\ streak = 0
    /\ reqCount = 0
    /\ lastObs = None
    /\ stats = [u \in AuthUrls |-> NoStats]
    /\ orderSeen = NoOrderSeen
    /\ stored = <<>>
    /\ conf = NoConf
    /\ sched \in {[active |-> 1, parked |-> FreshRun(c), recv |-> {}] :
                    c \in ChallengeKinds}

\* Mutant: the current nonce is kept in one place for all runs.
Switch_SharedNonce ==
    LET other == sched.parked IN
    /\ sched' = [active |-> 3 - sched.active, parked |-> ThisRun,
                 recv |-> (1..srvNonce) \ sched.recv]
    /\ pc' = other.pc
    /\ result' = other.result
    /\ challenge' = other.challenge
    /\ order' = other.order
    /\ order_url' = other.order_url
    /\ authIdx' = other.authIdx
    /\ auth' = other.auth
    /\ challIdx' = other.challIdx
    /\ tries' = other.tries
    /\ crt' = other.crt
    /\ usedNonces' = other.usedNonces
    /\ lastReq' = other.lastReq
    /\ streak' = other.streak
    /\ reqCount' = other.reqCount
    /\ lastObs' = other.lastObs
    /\ stats' = other.stats
    /\ orderSeen' = other.orderSeen
    /\ stored' = other.stored
    /\ UNCHANGED <<nonce, srvNonce, conf>>

\* The thread of the other run gets the processor: every local of
\* request_certificate belongs to the call, the server is the only thing the
\* runs have in common.
Switch ==
    LET other == sched.parked IN
    /\ sched' = [active |-> 3 - sched.active, parked |-> ThisRun,
                 recv |-> (1..srvNonce) \ sched.recv]
    /\ pc' = other.pc
    /\ result' = other.result
    /\ challenge' = other.challenge
    /\ nonce' = other.nonce
    /\ order' = other.order
    /\ order_url' = other.order_url
    /\ authIdx' = other.authIdx
    /\ auth' = other.auth
    /\ challIdx' = other.challIdx
    /\ tries' = other.tries
    /\ crt' = other.crt
    /\ usedNonces' = other.usedNonces
    /\ lastReq' = other.lastReq
    /\ streak' = other.streak
    /\ reqCount' = other.reqCount
    /\ lastObs' = other.lastObs
    /\ stats' = other.stats
    /\ orderSeen' = other.orderSeen
    /\ stored' = other.stored
    /\ UNCHANGED <<srvNonce, conf>>

\* A step of the run on the processor, while the two runs have requests left.
RunStep ==
    /\ reqCount + sched.parked.reqCount < MaxConcRequests
    /\ Next

ConcNext ==
    \/ RunStep
    \/ Switch

ConcSpec == ConcInit /\ [][ConcNext]_vars

(* ------------------ Challenge::from_str and Display -------------------- *)

\* Strings are sequences of characters.
Str_http_01 == <<"h", "t", "t", "p", "-", "0", "1">>
Str_dns_01 == <<"d", "n", "s", "-", "0", "1">>
Str_tls_alpn_01 == <<"t", "l", "s", "-", "a", "l", "p", "n", "-", "0", "1">>

ChallengeNames == {Str_http_01, Str_dns_01, Str_tls_alpn_01}

\* char::to_lowercase on the characters the inputs are made of.
CharToLowercase(c) ==
    CASE c = "A" -> "a"
      [] c = "D" -> "d"
      [] c = "H" -> "h"
      [] c = "L" -> "l"
      [] c = "N" -> "n"
      [] c = "P" -> "p"
      [] c = "S" -> "s"
      [] c = "T" -> "t"
      [] OTHER -> c

\* char::to_uppercase, used only to build inputs.
CharToUppercase(c) ==
    CASE c = "a" -> "A"
      [] c = "d" -> "D"
      [] c = "h" -> "H"
      [] c = "l" -> "L"
      [] c = "n" -> "N"
      [] c = "p" -> "P"
      [] c = "s" -> "S"
      [] c = "t" -> "T"
      [] OTHER -> c

\* A mutant of ToLowercase: the input is compared as written.
ToLowercase_AsWritten(s) == s

\* str::to_lowercase.
ToLowercase(s) == [i \in DOMAIN s |-> CharToLowercase(s[i])]

\* Challenge::from_str.
FromStr(s) ==
    LET l == ToLowercase(s)
    IN  CASE l = Str_http_01 -> "Http01"
          [] l = Str_dns_01 -> "Dns01"
          [] l = Str_tls_alpn_01 -> "TlsAlpn01"
          [] OTHER -> "Err"

\* A mutant of Display: the dns-01 arm drops the dash.
Display_NoDash(v) ==
    CASE v = "Http01" -> Str_http_01
      [] v = "Dns01" -> <<"d", "n", "s", "0", "1">>
      [] v = "TlsAlpn01" -> Str_tls_alpn_01

\* impl fmt::Display for Challenge.
Display(v) ==
    CASE v = "Http01" -> Str_http_01
      [] v = "Dns01" -> Str_dns_01
      [] v = "TlsAlpn01" -> Str_tls_alpn_01

\* The spellings of a name: any set of its characters written in upper case.
Spellings(name) ==
    {[i \in DOMAIN name |->
        IF i \in U THEN CharToUppercase(name[i]) ELSE name[i]] :
     U \in SUBSET DOMAIN name}

\* Strings one edit away from a name: a character dropped, or one appended.
DropAt(s, k) == [i \in 1..(Len(s) - 1) |-> IF i < k THEN s[i] ELSE s[i + 1]]
NearMisses(name) ==
    {DropAt(name, k) : k \in DOMAIN name}
        \cup {Append(name, c) : c \in {"1", "-", "s", "S"}}

\* The strings from_str is applied to.
ConfigStrings ==
    UNION {Spellings(n) : n \in ChallengeNames}
        \cup UNION {NearMisses(n) : n \in ChallengeNames}
        \cup UNION {Spellings(DropAt(Str_http_01, 5)), {<<>>}}

ParseInit ==
    /\ pc = "config"
    /\ result = "running"
    /\ challenge = None
    /\ nonce = 0
    /\ order = NoOrder
    /\ order_url = None
    /\ authIdx = 1
    /\ auth = NoAuth
    /\ challIdx = 1
    /\ tries = 0
    /\ crt = None
    /\ srvNonce = 0
    /\ usedNonces = {}
    /\ lastReq = NoReq
    /\ streak = 0
    /\ reqCount = 0
    /\ lastObs = None
    /\ stats = [u \in AuthUrls |-> NoStats]
    /\ orderSeen = NoOrderSeen
    /\ stored = <<>>
    /\ conf \in {[NoConf EXCEPT !.input = s] : s \in ConfigStrings}
    /\ sched = NoSched

runVars == <<pc, result, nonce, order, order_url, authIdx, auth, challIdx,
             tries, crt, srvNonce, usedNonces, lastReq, streak, reqCount,
             lastObs, stats, orderSeen, stored, sched>>

\* Challenge::from_str(input): Ok(variant), which becomes cert.challenge, or
\* Err.
ParseChallenge ==
    /\ pc = "config"
    /\ conf.parsed = None
    /\ conf' = [conf EXCEPT !.parsed = FromStr(conf.input)]
    /\ challenge' = IF conf'.parsed = "Err" THEN challenge ELSE conf'.parsed
    /\ UNCHANGED runVars

\* format!("{}", challenge)
DisplayChallenge ==
    /\ pc = "config"
    /\ challenge \in ChallengeKinds
    /\ conf.shown = <<>>
    /\ conf' = [conf EXCEPT !.shown = Display(challenge)]
    /\ UNCHANGED <<challenge, runVars>>

\* Challenge::from_str of the displayed name.
ReparseChallenge ==
    /\ pc = "config"
    /\ conf.shown # <<>>
    /\ conf.reparsed = None
    /\ conf' = [conf EXCEPT !.reparsed = FromStr(conf.shown)]
    /\ UNCHANGED <<challenge, runVars>>

ParseNext ==
    \/ ParseChallenge
    \/ DisplayChallenge
    \/ ReparseChallenge

ParseSpec == ParseInit /\ [][ParseNext]_vars

(* ------------------------------ claims -------------------------------- *)

\* The authorization URLs the order lists.
AuthList == order.authorizations

PollKinds == {"auth_poll", "order_poll"}

\* A step that builds and sends a signed request.
Sends == reqCount' = reqCount + 1

\* C1: every signed request is built with the nonce the immediately preceding
\* response returned, and never with a nonce an earlier request was built with.
C1_NonceChain ==
    [][Sends => /\ srvNonce > 0
                /\ lastReq'.nonce = srvNonce
                /\ lastReq'.nonce \notin usedNonces]_vars

\* C1's case: a run over two pending authorizations with two matching
\* challenges each, every poll retried, has sent its download request.
C1_Witness ==
    /\ pc = "store"
    /\ reqCount = 18
    /\ Cardinality(usedNonces) = 18

\* C2: the finalize request has been sent only if a poll of the order URL
\* returned "ready" and every authorization URL of the order was seen valid.
C2_FinalizeAfterReady ==
    orderSeen.finalizeUrl # None =>
        /\ orderSeen.ready
        /\ \A i \in 1..Len(AuthList) : stats[AuthList[i]].valid

\* C2's case: finalize sent for an order with one authorization valid on its
\* first fetch and one validated by polling.
C2_Witness ==
    /\ orderSeen.finalizeUrl # None
    /\ Len(AuthList) = 2
    /\ stats[AuthList[1]].first = "valid"
    /\ stats[AuthList[2]].first = "pending"

\* C3: the download request has been sent only if the order most recently
\* observed was valid and named a certificate URL, and it went to that URL.
C3_DownloadFromValidOrder ==
    orderSeen.downloadUrl # None =>
        /\ orderSeen.lastStatus = "valid"
        /\ orderSeen.lastCert # None
        /\ orderSeen.downloadUrl = orderSeen.lastCert
        /\ lastReq.kind = "download"
        /\ lastReq.url = orderSeen.lastCert

\* C3's case: the order-valid poll returned a valid order naming the second
\* certificate URL, and the download went there and returned bytes.
C3_Witness ==
    /\ orderSeen.downloadUrl = "crt2"
    /\ orderSeen.downloaded # None
    /\ order.certificate = "crt2"

\* C4: storage is written at most once, only after a successful download and
\* with the bytes it returned; Ok means one write; a failure before the
\* download completed means none.
C4_StorageWrite ==
    /\ Len(stored) <= 1
    /\ stored # <<>> => /\ orderSeen.downloaded # None
                        /\ stored[1] = orderSeen.downloaded
    /\ result = "ok" => Len(stored) = 1
    /\ (result \notin {"running", "ok"} /\ orderSeen.downloaded = None)
           => stored = <<>>

\* C4's case: a run that returned Ok after storing the downloaded bytes.
C4_Witness ==
    /\ result = "ok"
    /\ orderSeen.downloaded = "pemB"
    /\ stored = <<"pemB">>

\* C5: an authorization whose first fetch returns a status other than valid
\* or pending ends the run at once with an error: no proof, hook, acceptance
\* POST or poll for it, no later authorization fetched, no order poll, no
\* finalize.
C5_BadAuthorizationAborts ==
    \A i \in 1..Len(AuthList) :
        stats[AuthList[i]].first \notin {None, "valid", "pending"} =>
            /\ pc = "done"
            /\ result = "err_authorization_status"
            /\ ~stats[AuthList[i]].proofs
            /\ ~stats[AuthList[i]].hooks
            /\ ~stats[AuthList[i]].posts
            /\ ~stats[AuthList[i]].polls
            /\ \A j \in (i + 1)..Len(AuthList) : ~stats[AuthList[j]].fetched
            /\ lastReq.kind = "auth_fetch"
            /\ lastReq.url = AuthList[i]
            /\ ~orderSeen.ready
            /\ orderSeen.finalizeUrl = None

\* C5's case: the second authorization is fetched expired after the first
\* one was answered and validated.
C5_Witness ==
    /\ Len(AuthList) = 2
    /\ stats[AuthList[1]].posts
    /\ stats[AuthList[2]].first = "expired"

\* C6: an authorization valid on its first fetch gets no proof, hook,
\* acceptance POST or poll, and the request after its fetch is the fetch of
\* the next listed authorization, or the order poll after the last one.
C6_ValidAuthorizationSkipped ==
    /\ [](\A u \in AuthUrls :
            stats[u].first = "valid" =>
                ~stats[u].proofs /\ ~stats[u].hooks /\ ~stats[u].posts
                /\ ~stats[u].polls)
    /\ [][(Sends /\ lastReq.kind = "auth_fetch" /\ lastObs = "valid") =>
            \E i \in 1..Len(AuthList) :
                /\ AuthList[i] = lastReq.url
                /\ IF i < Len(AuthList)
                   THEN lastReq'.kind = "auth_fetch" /\ lastReq'.url = AuthList[i + 1]
                   ELSE lastReq'.kind = "order_poll" /\ lastReq'.url = order_url]_vars

\* C6's case: the first authorization was valid at once, the second was then
\* fetched valid too, and the order poll followed.
C6_Witness ==
    /\ Len(AuthList) = 2
    /\ stats[AuthList[1]].first = "valid"
    /\ stats[AuthList[2]].first = "valid"
    /\ lastReq.kind = "order_poll"

\* C7: when the order-valid poll returns a valid order without a certificate
\* URL the run returns an error, sends no download request and never calls
\* storage.
C7_NoCertificateUrl ==
    /\ []((/\ lastReq.kind = "order_poll"
           /\ orderSeen.finalizeUrl # None
           /\ lastObs = "valid"
           /\ orderSeen.lastCert = None) =>
              /\ pc \in {"download", "done"}
              /\ pc = "done" => result = "err_no_certificate"
              /\ result # "ok"
              /\ orderSeen.downloadUrl = None
              /\ stored = <<>>)
    /\ [][(pc = "download" /\ orderSeen.lastCert = None) =>
              (pc' = "done" /\ result' = "err_no_certificate" /\ ~Sends)]_vars

\* C7's case: the run ended on the missing certificate URL.
C7_Witness ==
    /\ result = "err_no_certificate"
    /\ orderSeen.lastStatus = "valid"
    /\ orderSeen.finalizeUrl # None

\* C8: each offered challenge the loop reaches is acted on (proof, then hook,
\* then acceptance POST to its URL) exactly when its variant kind is the
\* configured one, whatever its token and URL; otherwise the loop moves on to
\* the next challenge without doing anything; the loop ends only past the
\* last offered challenge or by a failing step.
C8_ChallengeMatching ==
    /\ [][(pc = "chall_loop" /\ (pc' # pc \/ challIdx' # challIdx)) =>
            LET c == auth.challenges[challIdx] IN
            /\ (pc' = "hook" \/ result' = "err_proof") <=> c.kind = challenge
            /\ c.kind # challenge =>
                   /\ challIdx' = challIdx + 1
                   /\ result' = "running"
                   /\ ~Sends
                   /\ stats' = stats]_vars
    /\ [](pc \in {"hook", "post"} => auth.challenges[challIdx].kind = challenge)
    /\ [][(pc = "post" /\ Sends) =>
            /\ lastReq'.kind = "challenge_response"
            /\ lastReq'.url = auth.challenges[challIdx].data.url]_vars
    /\ [][(Sends /\ lastReq'.kind = "challenge_response") => pc = "post"]_vars
    /\ [](pc = "pool_auth" => challIdx = Len(auth.challenges) + 1)

\* C8's case: with Dns01 configured, an offered Http01 was passed over and
\* the Dns01 challenge after it, with its own URL and token, is answered.
C8_Witness ==
    /\ challenge = "Dns01"
    /\ pc = "post"
    /\ challIdx = 2
    /\ auth.challenges[1].kind = "Http01"
    /\ auth.challenges[2].data.token = "tokB"

\* C9: a poll that observes "invalid" returns Failed, not Timeout, the run
\* aborts and no further request is sent.
C9_PollFailed ==
    /\ [][(Sends /\ lastReq'.kind \in PollKinds /\ lastObs' = "invalid") =>
              (pc' = "done" /\ result' = "Failed")]_vars
    /\ [](result = "Failed" =>
              /\ pc = "done"
              /\ lastReq.kind \in PollKinds
              /\ lastObs \in {"invalid", "expired", "revoked"})
    /\ [][pc = "done" => ~Sends]_vars

\* C9's case: the second fetch of an authorization poll observed "invalid".
C9_Witness ==
    /\ result = "Failed"
    /\ lastReq.kind = "auth_poll"
    /\ lastObs = "invalid"
    /\ streak = 2

\* The status the poll behind the request about to be sent waits for.
Awaited ==
    IF lastReq'.kind = "auth_poll" THEN "valid"
    ELSE IF orderSeen.finalizeUrl = None THEN "ready" ELSE "valid"

\* C10: no poll fetches its resource more than MaxTries times, and a poll
\* whose MaxTries-th fetch still shows a status that is neither the awaited
\* one nor a terminal failure returns Timeout.
C10_PollTimeout ==
    /\ [](lastReq.kind \in PollKinds => streak <= MaxTries)
    /\ [](result = "Timeout" =>
              /\ pc = "done"
              /\ lastReq.kind \in PollKinds
              /\ streak = MaxTries)
    /\ [][(/\ Sends
           /\ lastReq'.kind \in PollKinds
           /\ streak' = MaxTries
           /\ lastObs' \notin {None, Awaited, "invalid", "expired", "revoked"}) =>
              (pc' = "done" /\ result' = "Timeout")]_vars

\* C10's case: the order-valid poll timed out after MaxTries fetches.
C10_Witness ==
    /\ result = "Timeout"
    /\ lastReq.kind = "order_poll"
    /\ orderSeen.finalizeUrl # None
    /\ streak = MaxTries

\* The most signed requests one run can build: account, new-order, per
\* authorization a fetch, an acceptance POST per challenge and the polls, the
\* two polls of the order, finalize, download.
MaxRequests == 2 + MaxAuths * (1 + MaxChall + MaxTries) + 2 * MaxTries + 2

\* C11: every run ends, whatever the server answers: with Ok after the storage
\* write or with an error, after a bounded number of requests.
C11_Terminates ==
    /\ <>(pc = "done")
    /\ [](reqCount <= MaxRequests)
    /\ [](pc = "done" <=> result # "running")
    /\ [](result = "ok" => stored # <<>>)

\* C11's case: a run ended by the timeout of a poll whose resource never
\* reached the awaited status.
C11_Witness ==
    /\ pc = "done"
    /\ result = "Timeout"
    /\ lastObs = "pending"
    /\ streak = MaxTries

\* Two strings are the same up to the case of their letters.
SameIgnoringCase(a, b) ==
    /\ Len(a) = Len(b)
    /\ \A i \in DOMAIN a :
          \/ a[i] = b[i]
          \/ CharToUppercase(a[i]) = b[i]
          \/ a[i] = CharToUppercase(b[i])

\* C12: from_str succeeds exactly on the strings that spell http-01, dns-01 or
\* tls-alpn-01 in any mix of cases, with the variant of that name, and fails
\* on every other string.
C12_FromStrCaseInsensitive ==
    conf.parsed # None =>
        /\ \A v \in ChallengeKinds :
              conf.parsed = v <=> SameIgnoringCase(conf.input, Display(v))
        /\ conf.parsed = "Err" <=>
              \A n \in ChallengeNames : ~SameIgnoringCase(conf.input, n)

\* C12's case: "HTTP-01" was parsed, to Http01.
C12_Witness ==
    /\ conf.input = <<"H", "T", "T", "P", "-", "0", "1">>
    /\ conf.parsed = "Http01"

\* C12's failing case: "http01" was rejected.
C12_WitnessRejected ==
    /\ conf.input = <<"h", "t", "t", "p", "0", "1">>
    /\ conf.parsed = "Err"

\* C13: for every accepted string, displaying the parsed variant gives the
\* string in lower case, and parsing what a variant displays gives the variant
\* back.
C13_RoundTrip ==
    /\ conf.shown # <<>> =>
          /\ conf.shown = [i \in DOMAIN conf.input |->
                             CharToLowercase(conf.input[i])]
          /\ SameIgnoringCase(conf.shown, conf.input)
    /\ conf.reparsed # None => conf.reparsed = challenge

\* C13's case: "Tls-Alpn-01" went through parse, display and parse again.
C13_Witness ==
    /\ conf.input = <<"T", "l", "s", "-", "A", "l", "p", "n", "-", "0", "1">>
    /\ conf.shown = Str_tls_alpn_01
    /\ conf.reparsed = "TlsAlpn01"

\* The challenge the loop is at equals the configured one.
Matched == ChallengeEq(challenge, CurChallenge)

\* C14: the hook runs once per matched challenge and before its acceptance POST;
\* a failed proof or hook ends the run with no POST; acceptance POSTs never
\* outnumber the hook invocations that succeeded.
C14_HookBeforePost ==
    /\ [](\A u \in AuthUrls : ~stats[u].uncovered /\ stats[u].credit <= 1)
    /\ [](pc = "post" => stats[AuthUrl].credit = 1)
    /\ [](\A u \in AuthUrls :
            stats[u].credit = 1 => pc = "post" /\ AuthUrl = u)
    /\ [][/\ pc' = "hook" /\ pc # "hook" =>
                /\ pc = "chall_loop" /\ Matched
                /\ challIdx' = challIdx /\ auth' = auth /\ authIdx' = authIdx
          /\ pc = "hook" =>
                /\ stats[AuthUrl].credit = 0
                /\ stats'[AuthUrl].hooks
                /\ \/ pc' = "post" /\ challIdx' = challIdx /\ auth' = auth
                   \/ pc' = "done" /\ result' = "err_hook"
                /\ ~Sends
          /\ pc = "chall_loop" /\ Matched =>
                /\ pc' \in {"hook", "done"}
                /\ pc' = "done" => result' = "err_proof"
                /\ ~Sends
          /\ Sends /\ lastReq'.kind = "challenge_response" =>
                /\ pc = "post"
                /\ Matched
                /\ lastReq'.url = GetUrl(CurChallenge)
          /\ pc = "post" =>
                /\ Sends /\ lastReq'.kind = "challenge_response"
                /\ pc' # "post"
                /\ pc' # "done" => challIdx' = challIdx + 1]_vars

\* C14's case: two challenges of one authorization matched; each had its hook
\* run and then its acceptance POST.
C14_Witness ==
    /\ pc = "pool_auth"
    /\ Len(auth.challenges) = MaxChall
    /\ \A i \in DOMAIN auth.challenges :
          ChallengeEq(challenge, auth.challenges[i])
    /\ stats[AuthUrl].posts
    /\ stats[AuthUrl].credit = 0
    /\ lastReq.kind = "challenge_response"
    /\ lastReq.url = GetUrl(auth.challenges[MaxChall])

\* The run holds a pending authorization none of whose challenges equals the
\* configured one.
Unmatched ==
    /\ auth # NoAuth
    /\ auth.status = "pending"
    /\ \A i \in DOMAIN auth.challenges :
          ~ChallengeEq(challenge, auth.challenges[i])

\* The server has declared valid only authorizations that were valid at their
\* first fetch or had an acceptance POST.
StrictServer ==
    \A u \in AuthUrls :
        stats[u].valid /\ stats[u].first = "pending" => stats[u].posts

PollErrors == {"Failed", "Timeout", "err_http"}

\* C15: a pending authorization with no matching challenge raises no error of
\* its own and gets no proof, hook or POST; the next request is the poll of its
\* URL; when the server validates only after an acceptance POST, that poll ends
\* in an error and the run never reaches finalize.
C15_NoMatchingChallenge ==
    /\ [](Unmatched =>
            /\ ~stats[AuthUrl].proofs
            /\ ~stats[AuthUrl].hooks
            /\ ~stats[AuthUrl].posts
            /\ pc \in {"chall_loop", "pool_auth", "done"}
            /\ pc = "done" =>
                  /\ result \in PollErrors
                  /\ lastReq.kind = "auth_poll"
                  /\ lastReq.url = AuthUrl)
    /\ [](StrictServer =>
            \A u \in AuthUrls :
                stats[u].first = "pending" /\ ~stats[u].posts /\ stats[u].polls
                    => /\ orderSeen.finalizeUrl = None
                       /\ orderSeen.lastStatus = None
                       /\ pc \in {"pool_auth", "done"}
                       /\ AuthUrl = u
                       /\ result \in {"running"} \cup PollErrors)
    /\ [][Unmatched =>
            /\ Sends => /\ pc = "pool_auth"
                        /\ lastReq'.kind = "auth_poll"
                        /\ lastReq'.url = AuthUrl
            /\ pc = "pool_auth" /\ pc' # "pool_auth" /\ StrictServer' =>
                  pc' = "done" /\ result' \in PollErrors]_vars

\* C15's case: against a strict server the poll of an authorization with no
\* matching challenge ran out of attempts.
C15_Witness ==
    /\ Unmatched
    /\ StrictServer
    /\ Len(auth.challenges) = MaxChall
    /\ pc = "done"
    /\ result = "Timeout"
    /\ stats[AuthUrl].polls
    /\ lastObs = "pending"

\* The errors each step can end the run with.
StepErrors(step) ==
    CASE step = "directory" -> {"err_directory"}
      [] step = "nonce" -> {"err_nonce"}
      [] step = "account" -> {"err_account"}
      [] step = "new_order" -> {"err_new_order"}
      [] step = "auth_fetch" -> {"err_http", "err_authorization_status"}
      [] step = "chall_loop" -> {"err_proof"}
      [] step = "hook" -> {"err_hook"}
      [] step = "post" -> {"err_http"}
      [] step \in {"pool_auth", "pool_ready", "pool_valid"} -> PollErrors
      [] step = "csr" -> {"err_csr"}
      [] step = "finalize" -> {"err_http"}
      [] step = "download" -> {"err_http", "err_no_certificate"}
      [] step = "store" -> {"err_storage"}
      [] OTHER -> {}

\* C16: a step that fails ends the run with that step's error; after the end no
\* request is sent, no hook runs and nothing is stored; only polls repeat a
\* request.
C16_NoRecovery ==
    /\ [](pc = "done" <=> result # "running")
    /\ [](Len(stored) <= 1)
    /\ [][/\ result = "running"
          /\ result' \notin {"running", "ok"} =>
                pc' = "done" /\ result' \in StepErrors(pc)
          /\ result' = "ok" => pc = "store" /\ pc' = "done"
          /\ Sends /\ lastReq'.kind = lastReq.kind
                   /\ lastReq'.url = lastReq.url =>
                lastReq'.kind \in PollKinds]_vars

\* C16's case: the finalize request failed after acceptance POSTs; the run
\* ended there, with the finalize request as its last.
C16_Witness ==
    /\ pc = "done"
    /\ result = "err_http"
    /\ lastReq.kind = "finalize"
    /\ \E u \in AuthUrls : stats[u].posts
    /\ orderSeen.downloadUrl = None
    /\ stored = <<>>

\* The payload each kind of request carries.
PayloadOf(kind) ==
    CASE kind \in {"auth_fetch", "auth_poll", "order_poll", "download"} -> ""
      [] kind = "challenge_response" -> "{}"
      [] kind = "new_order" -> "order"
      [] kind = "finalize" -> "csr"
      [] kind = "new_account" -> "account"

\* C17: fetches of an authorization, polls and the download are signed with the
\* empty payload, the acceptance POST with {}, new-order with the order,
\* finalize with the CSR; each request is signed for the URL it is sent to.
C17_Payloads ==
    [][Sends =>
        /\ lastReq'.payload = PayloadOf(lastReq'.kind)
        /\ lastReq'.url = lastReq'.to
        /\ lastReq'.payload = "" <=>
              lastReq'.kind \in {"auth_fetch", "auth_poll", "order_poll",
                                 "download"}
        /\ lastReq'.payload = "{}" <=> lastReq'.kind = "challenge_response"
        /\ lastReq'.kind \in {"auth_fetch", "auth_poll"} =>
              lastReq'.to = AuthUrl
        /\ lastReq'.kind = "challenge_response" =>
              lastReq'.to = GetUrl(CurChallenge)
        /\ lastReq'.kind = "order_poll" => lastReq'.to = order_url
        /\ lastReq'.kind = "finalize" => lastReq'.to = order.finalize
        /\ lastReq'.kind = "download" => lastReq'.to = order.certificate
        /\ lastReq'.kind = "new_order" => lastReq'.to = "new_order"]_vars

\* C17's case: after an acceptance POST carrying {} the authorization is polled
\* with the empty payload.
C17_Witness ==
    /\ pc = "pool_auth"
    /\ lastReq.kind = "auth_poll"
    /\ lastReq.payload = ""
    /\ lastReq.to = AuthUrl
    /\ stats[AuthUrl].posts

\* C18: of two runs interleaved in any way, each builds its requests with the
\* nonce the server last returned to itself, never with one returned to the
\* other, and a step of one run leaves the nonce, order and authorization
\* progress of the other as they were.
C18_RunsIndependent ==
    /\ [](usedNonces \cap sched.recv = {})
    /\ [](sched.parked.usedNonces \subseteq sched.recv)
    /\ [](nonce \notin sched.recv /\ sched.parked.nonce \in sched.recv \cup {0})
    /\ [][/\ sched'.active = sched.active =>
                /\ sched'.parked = sched.parked
                /\ Sends =>
                      /\ lastReq'.nonce \in (1..srvNonce) \ sched.recv
                      /\ \A n \in (1..srvNonce) \ sched.recv :
                            n <= lastReq'.nonce
          /\ sched'.active # sched.active =>
                /\ ThisRun' = sched.parked
                /\ sched'.parked = ThisRun
                /\ srvNonce' = srvNonce]_vars

\* C18's case: one run has its order and fetched an authorization, the other
\* sent a request between two requests of the first.
C18_Witness ==
    /\ order # NoOrder
    /\ auth # NoAuth
    /\ sched.parked.nonce > 0
    /\ \E a \in usedNonces, b \in usedNonces :
          \E c \in sched.parked.usedNonces : a < c /\ c < b

\* C19: finalize goes to the URL in the order the order-ready poll returned;
\* its response leaves the order the run holds as it was; the order URL is
\* fetched again before any download; the download goes to the certificate URL
\* of the order the order-valid poll returned.
C19_FinalizeResponseDiscarded ==
    /\ [](orderSeen.finalizeUrl # None =>
            orderSeen.finalizeUrl = orderSeen.readyFinalize)
    /\ [](orderSeen.downloadUrl # None =>
            /\ orderSeen.refetched
            /\ orderSeen.downloadUrl = order.certificate
            /\ orderSeen.lastCert = order.certificate
            /\ order.status = "valid")
    /\ [][/\ pc = "finalize" => order' = order /\ ~orderSeen'.refetched
          /\ Sends /\ lastReq'.kind = "download" =>
                /\ lastReq.kind = "order_poll"
                /\ lastReq.to = order_url
                /\ orderSeen.refetched
                /\ lastReq'.to = orderSeen.lastCert
          /\ pc = "download" /\ orderSeen.lastCert # None => Sends]_vars

\* C19's case: the response to finalize named one certificate URL, the order
\* the order-valid poll returned named the other, and the download went to the
\* latter; finalize had gone to the URL of the order-ready poll's order.
C19_Witness ==
    /\ orderSeen.finalizeCert = "crt1"
    /\ orderSeen.downloadUrl = "crt2"
    /\ orderSeen.downloaded # None
    /\ orderSeen.finalizeUrl = "fin2"

\* The listed authorizations before position k.
Before(k) == {AuthList[j] : j \in 1..(k - 1)}

\* C20: the authorizations are handled one at a time in the listed order: one is
\* first fetched only after all before it were seen valid; at most one has had
\* an acceptance POST and not yet been seen valid; the order URL is polled only
\* after all listed ones were seen valid.
C20_OneAuthorizationAtATime ==
    /\ [](\A k \in DOMAIN AuthList :
            stats[AuthList[k]].fetched =>
                \A u \in Before(k) : stats[u].valid)
    /\ [](Cardinality({u \in AuthUrls :
                         stats[u].posts /\ ~stats[u].valid}) <= 1)
    /\ [](lastReq.kind = "order_poll" \/ orderSeen.lastStatus # None =>
            \A k \in DOMAIN AuthList : stats[AuthList[k]].valid)
    /\ [][Sends /\ lastReq'.kind \in {"auth_fetch", "auth_poll",
                                       "challenge_response"} =>
            /\ authIdx \in DOMAIN AuthList
            /\ \A u \in Before(authIdx) : stats[u].valid
            /\ \A k \in DOMAIN AuthList :
                  k > authIdx => stats[AuthList[k]] = NoStats
            /\ lastReq'.kind \in {"auth_fetch", "auth_poll"} =>
                  lastReq'.to = AuthList[authIdx]
            /\ lastReq'.kind = "auth_fetch" =>
                  ~stats[AuthList[authIdx]].fetched]_vars

\* C20's case: the first authorization had its acceptance POST and was polled
\* until valid; only then the second was fetched, and it has its own acceptance
\* POST outstanding.
C20_Witness ==
    /\ Len(AuthList) = MaxAuths
    /\ stats[AuthList[1]].posts
    /\ stats[AuthList[1]].polls
    /\ stats[AuthList[1]].valid
    /\ stats[AuthList[2]].posts
    /\ ~stats[AuthList[2]].valid

=============================================================================
